---- MODULE Spec2Model ----
(***************************************************************************)
(* WheelHouse streamer (wheelhouse-streamer/streamer.py): the relay between *)
(* one upstream streaming session and the downstream consumers.            *)
(*                                                                         *)
(* The program is a set of asyncio tasks on one event loop.  A task runs   *)
(* without interruption between two awaits, so every action below is the   *)
(* code of one task from one suspension point to the next.                 *)
(*                                                                         *)
(*   Spec         the session supervisor, the subscription manager and the *)
(*                command handlers of the consumers                        *)
(*   LiveSpec     Spec with the fairness of the supervisor's poll task     *)
(*   HubSpec      the supervisor, the connections and the broadcasts       *)
(*   QuoteSpec    the supervisor, the connections and the quote handlers   *)
(*   ShutdownSpec Spec until the process ends                              *)
(*   CodecSpec    the conversions of occ_converter.py                      *)
(***************************************************************************)
EXTENDS Naturals, FiniteSets, Sequences, TLC

\* ------------------------------------------------------------------ bounds
NumConsumers == 2
\* The most items in the content list of one quote event.
MaxItems == 2

Consumers == 1..NumConsumers
\* The instrument identifiers the consumers ask for.
OptionSymbols == {"AAPL  260221P00200000", "AAPL  260221C00200000"}
EquitySymbols == {"AAPL"}
\* The tasks that call broadcast_to_node: status_broadcast (the heartbeat) and the
\* receive loop, through the three stream handlers.
Broadcasters == {"status_broadcast", "stream_message_loop"}

\* ------------------------------------------------------------------- state
VARIABLES
    stream_client,        \* streamer.py:51, None or the StreamClient object
    sup,                  \* where main / reconnect_loop stands
    connect_result,       \* how the last connect_to_schwab call ended
    rx,                   \* the stream_message_loop task: "none", "running", "exited"
    session_live,         \* the upstream session is logged in and open
    upstream_options,     \* option symbols active on the upstream session
    upstream_equities,    \* equity symbols active on the upstream session
    subscribed_options,   \* streamer.py:46
    subscribed_equities,  \* streamer.py:47
    connected_clients,    \* streamer.py:43
    conn,                 \* each consumer's channel: "none", "open", "broken"
    task,                 \* each handle_node_connection task: "none", "idle", "await"
    call,                 \* the upstream call a handler task is suspended in
    bc,                   \* each broadcaster's broadcast_to_node call
    last,                 \* the command the last step completed, and how
    out,                  \* the messages the last step delivered to consumers
    ws_server,            \* streamer.py:393, the downstream listener: "open", "closed"
    proc,                 \* the process: "running", "exited"
    quote,                \* the quote event a stream handler is working on
    codec,                \* one conversion of occ_converter.py and its stage
    attempts,             \* the connect_to_schwab calls suspended in login()
    loops                 \* the stream_message_loop tasks created and not ended

sessVars == <<stream_client, sup, connect_result, rx, session_live>>
upVars == <<upstream_options, upstream_equities>>
subVars == <<subscribed_options, subscribed_equities>>
consVars == <<connected_clients, conn, task>>
procVars == <<ws_server, proc>>
taskVars == <<attempts, loops>>
restVars == <<procVars, quote, codec, taskVars>>
vars == <<sessVars, upVars, subVars, consVars, call, bc, last, out, restVars>>

None == "None"
NoCall == [cmd |-> "none", symbols |-> {}, op |-> "none", syms |-> {}]
\* No broadcast_to_node call made yet: `res` is how the last call ended, `used` the
\* size of connected_clients and `start` its members when the iteration began,
\* `visited` the clients the iteration has yielded, `disconnected` the local set of
\* the call and `stayed` the clients whose channel has been open since the call began.
NoBroadcast == [pc |-> "idle", res |-> "none", used |-> 0, start |-> {}, visited |-> {},
                disconnected |-> {}, stayed |-> {}]
NoCommand == [who |-> 0, cmd |-> "none", symbols |-> {}, res |-> "none", repeats |-> FALSE]
\* No quote event handled yet: `content` is the event's item list, `i` the item the
\* handler is at, `broadcast` the items handed to broadcast_to_node whose call
\* returned, `res` how the handler ended.
NoQuote == [pc |-> "idle", handler |-> "none", content |-> <<>>, i |-> 0,
            broadcast |-> {}, res |-> "none"]
\* No position converted: no result of occ_to_position yet.
NoPosition == [ticker |-> <<>>, expiry |-> [year |-> 0, month |-> 0, day |-> 0],
               strike |-> 0, optionType |-> "none"]
\* No conversion in progress.  A text is a sequence of characters, a date its
\* year, month and day, a strike its number of thousandths.
NoCodec == [pc |-> "idle", ticker |-> <<>>, expiry |-> NoPosition.expiry, strike |-> 0,
            option_type |-> "none", occ |-> <<>>, decoded |-> NoPosition]

\* The outcomes of connect_to_schwab up to its only await (the streaming login).
ConnectFailures == {"missing_credentials", "client_error", "accounts_status", "no_accounts"}
ConnectOutcomes == ConnectFailures \cup {"login"}

\* The relay once main has started the downstream listener.
RelayInit ==
    /\ stream_client = None
    /\ sup = "main"
    /\ connect_result = "none"
    /\ rx = "none"
    /\ session_live = FALSE
    /\ upstream_options = {}
    /\ upstream_equities = {}
    /\ subscribed_options = {}
    /\ subscribed_equities = {}
    /\ connected_clients = {}
    /\ conn = [c \in Consumers |-> "none"]
    /\ task = [c \in Consumers |-> "none"]
    /\ call = [c \in Consumers |-> NoCall]
    /\ bc = [b \in Broadcasters |-> NoBroadcast]
    /\ last = NoCommand
    /\ out = {}
    /\ ws_server = "open"
    /\ proc = "running"
    /\ quote = NoQuote
    /\ attempts = 0
    /\ loops = 0

Init ==
    /\ RelayInit
    /\ codec = NoCodec

\* ------------------------------------------------------ session supervisor

\* connect_to_schwab up to the await of stream_client.login(): the credential
\* check, easy_client, get_account_numbers and the StreamClient constructor are
\* synchronous.  A failure before the constructor returns False at once; otherwise
\* the global stream_client is assigned and the task suspends in login().
connect_to_schwab(caller, outcome) ==
    /\ IF outcome = "login"
       THEN /\ stream_client' = "StreamClient"
            /\ sup' = caller
            /\ connect_result' = "login"
       ELSE /\ stream_client' = stream_client
            /\ sup' = "reconnect"
            /\ connect_result' = outcome
    /\ attempts' = IF outcome = "login" THEN attempts + 1 ELSE attempts
    /\ out' = {}
    /\ UNCHANGED <<rx, session_live, upVars, subVars, consVars, call, bc,
                   procVars, quote, codec, loops>>
    /\ last' = NoCommand

\* main: the first connect attempt, made once the downstream listener is up.
main_connect(outcome) ==
    /\ sup = "main"
    /\ connect_to_schwab("main_login", outcome)

\* reconnect_loop with a connect attempt at every poll, whether or not a handle
\* exists.
reconnect_loop_unguarded ==
    /\ sup = "reconnect"
    /\ \E outcome \in ConnectOutcomes : connect_to_schwab("reconnect_login", outcome)
    /\ last' = NoCommand

\* reconnect_loop: one poll.  A connect attempt is made only if no handle exists;
\* otherwise the task sleeps again.
reconnect_loop ==
    /\ sup = "reconnect"
    /\ IF stream_client = None
       THEN \E outcome \in ConnectOutcomes : connect_to_schwab("reconnect_login", outcome)
       ELSE /\ out' = {}
            /\ UNCHANGED <<sessVars, upVars, subVars, consVars, call, bc, restVars>>
    /\ last' = NoCommand

\* connect_login_ok with the subscriptions replayed on the new session: the tracked
\* symbols and those of the subscribe requests in flight are subscribed upstream.
connect_login_ok_resubscribe ==
    /\ sup \in {"main_login", "reconnect_login"}
    /\ sup' = "reconnect"
    /\ connect_result' = "ok"
    /\ rx' = "running"
    /\ session_live' = TRUE
    /\ upstream_options' = subscribed_options \cup
           UNION {call[c].syms : c \in {d \in Consumers : call[d].cmd = "subscribe_options"}}
    /\ upstream_equities' = subscribed_equities \cup
           UNION {call[c].syms : c \in {d \in Consumers : call[d].cmd = "subscribe_equities"}}
    /\ attempts' = attempts - 1
    /\ loops' = loops + 1
    /\ out' = {}
    /\ UNCHANGED <<stream_client, subVars, consVars, call, bc, procVars, quote, codec>>
    /\ last' = NoCommand

\* login() returned: the three handlers are registered, connect_to_schwab returns
\* True and the caller creates the stream_message_loop task.
connect_login_ok ==
    /\ sup \in {"main_login", "reconnect_login"}
    /\ sup' = "reconnect"
    /\ connect_result' = "ok"
    /\ rx' = "running"
    /\ session_live' = TRUE
    /\ upstream_options' = {}
    /\ upstream_equities' = {}
    /\ attempts' = attempts - 1
    /\ loops' = loops + 1
    /\ out' = {}
    /\ UNCHANGED <<stream_client, subVars, consVars, call, bc, procVars, quote, codec>>
    /\ last' = NoCommand

\* login() raised: the except clause prints and returns False.
connect_login_except ==
    /\ sup \in {"main_login", "reconnect_login"}
    /\ sup' = "reconnect"
    /\ connect_result' = "login_failed"
    /\ attempts' = attempts - 1
    /\ out' = {}
    /\ UNCHANGED <<stream_client, rx, session_live, upVars, subVars, consVars, call, bc,
                   procVars, quote, codec, loops>>
    /\ last' = NoCommand

\* stream_message_loop_exit with the tracked sets cleared when the session is lost.
stream_message_loop_exit_clears ==
    /\ rx = "running"
    /\ bc["stream_message_loop"].pc = "idle"
    /\ rx' = "exited"
    /\ session_live' = FALSE
    /\ upstream_options' = {}
    /\ upstream_equities' = {}
    /\ subscribed_options' = {}
    /\ subscribed_equities' = {}
    /\ loops' = loops - 1
    /\ out' = {}
    /\ UNCHANGED <<stream_client, sup, connect_result, consVars, call, bc,
                   procVars, quote, codec, attempts>>
    /\ last' = NoCommand

\* stream_message_loop: handle_message raised (the upstream closed the session or
\* an error); the except clause prints and the task ends.
stream_message_loop_exit ==
    /\ rx = "running"
    /\ bc["stream_message_loop"].pc = "idle"
    /\ rx' = "exited"
    /\ session_live' = FALSE
    /\ upstream_options' = {}
    /\ upstream_equities' = {}
    /\ loops' = loops - 1
    /\ out' = {}
    /\ UNCHANGED <<stream_client, sup, connect_result, subVars, consVars, call, bc,
                   procVars, quote, codec, attempts>>
    /\ last' = NoCommand

\* -------------------------------------------------------- upstream session
\* The effect of the StreamClient subscription calls on the session's active
\* symbols: level_one_*_subs replaces the subscription of its service,
\* level_one_*_add extends it, level_one_option_unsubs removes from it.
upstream_apply(op, active, syms) ==
    CASE op = "subs" -> syms
      [] op = "add" -> active \cup syms
      [] op = "unsubs" -> active \ syms
      [] OTHER -> active

\* ---------------------------------------------------- subscription manager

\* The record of the command of consumer c a step completes: `repeats` tells whether the step
\* before completed the same command with the same symbols after a successful
\* upstream call.
Completed(c, cmd, symbols, res) ==
    [who |-> c, cmd |-> cmd, symbols |-> symbols, res |-> res,
     repeats |-> last.cmd = cmd /\ last.symbols = symbols /\ last.res = "ok"]

\* new_symbols without the filter on the tracked set: every requested symbol is
\* sent upstream again.
new_symbols_unfiltered(symbols, tracked) == symbols

\* new_symbols = [s for s in symbols if s not in subscribed_*]
new_symbols(symbols, tracked) == symbols \ tracked

\* to_remove without the filter on the tracked set: every symbol of the command is
\* passed to the upstream unsubscribe.
to_remove_unfiltered(symbols, tracked) == symbols

\* to_remove = [s for s in symbols if s in subscribed_options]
to_remove(symbols, tracked) == symbols \cap tracked

\* subscribe_op with the initial-subscription operation used for every call.
subscribe_op_always_subs(tracked) == "subs"

\* if subscribed_*: level_one_*_add(new_symbols) else: level_one_*_subs(new_symbols)
subscribe_op(tracked) == IF tracked # {} THEN "add" ELSE "subs"

\* begin_call with the subscription function started as a task of its own instead
\* of awaited: the handler reads its next command while the call is in flight.
begin_call_unordered(c, cmd, symbols, op, syms) ==
    /\ task[c] \in {"idle", "await"}
    /\ IF stream_client = None
       THEN /\ last' = Completed(c, cmd, symbols, "no_session")
            /\ UNCHANGED <<task, call>>
       ELSE IF syms = {}
       THEN /\ last' = Completed(c, cmd, symbols, "noop")
            /\ UNCHANGED <<task, call>>
       ELSE /\ call' = [call EXCEPT ![c] =
                            [cmd |-> cmd, symbols |-> symbols, op |-> op, syms |-> syms]]
            /\ task' = [task EXCEPT ![c] = "await"]
            /\ last' = NoCommand
    /\ out' = {}
    /\ UNCHANGED <<sessVars, upVars, subVars, connected_clients, conn, bc, restVars>>

\* begin_call with a command that finds no session handle kept as a pending call,
\* to be applied once a session is live.
begin_call_queued(c, cmd, symbols, op, syms) ==
    /\ task[c] = "idle"
    /\ IF stream_client # None /\ syms = {}
       THEN /\ last' = Completed(c, cmd, symbols, "noop")
            /\ UNCHANGED <<task, call>>
       ELSE /\ call' = [call EXCEPT ![c] =
                            [cmd |-> cmd, symbols |-> symbols, op |-> op, syms |-> syms]]
            /\ task' = [task EXCEPT ![c] = "await"]
            /\ last' = NoCommand
    /\ out' = {}
    /\ UNCHANGED <<sessVars, upVars, subVars, connected_clients, conn, bc, restVars>>

\* A subscription function up to its upstream await: it returns at once without a
\* session handle or with nothing to change, and otherwise suspends in the call.
begin_call(c, cmd, symbols, op, syms) ==
    /\ task[c] = "idle"
    /\ IF stream_client = None
       THEN /\ last' = Completed(c, cmd, symbols, "no_session")
            /\ UNCHANGED <<task, call>>
       ELSE IF syms = {}
       THEN /\ last' = Completed(c, cmd, symbols, "noop")
            /\ UNCHANGED <<task, call>>
       ELSE /\ call' = [call EXCEPT ![c] =
                            [cmd |-> cmd, symbols |-> symbols, op |-> op, syms |-> syms]]
            /\ task' = [task EXCEPT ![c] = "await"]
            /\ last' = NoCommand
    /\ out' = {}
    /\ UNCHANGED <<sessVars, upVars, subVars, connected_clients, conn, bc, restVars>>

\* The handler task resumes from its upstream call and goes back to `async for`.
end_call(c, res) ==
    /\ last' = Completed(c, call[c].cmd, call[c].symbols, res)
    /\ call' = [call EXCEPT ![c] = NoCall]
    /\ task' = [task EXCEPT ![c] = "idle"]
    /\ out' = {}
    /\ UNCHANGED <<sessVars, connected_clients, conn, bc, restVars>>

subscribe_options(c, symbols) ==
    begin_call(c, "subscribe_options", symbols, subscribe_op(subscribed_options),
               new_symbols(symbols, subscribed_options))

\* The upstream call returned: subscribed_options.update(new_symbols)
subscribe_options_return(c) ==
    /\ task[c] = "await" /\ call[c].cmd = "subscribe_options"
    /\ session_live
    /\ upstream_options' = upstream_apply(call[c].op, upstream_options, call[c].syms)
    /\ subscribed_options' = subscribed_options \cup call[c].syms
    /\ UNCHANGED <<upstream_equities, subscribed_equities>>
    /\ end_call(c, "ok")

\* subscribe_options with the tracked set updated before the upstream call is known
\* to have succeeded: a failure leaves the new symbols in the set.
subscribe_options_except_partial(c) ==
    /\ task[c] = "await" /\ call[c].cmd = "subscribe_options"
    /\ subscribed_options' = subscribed_options \cup call[c].syms
    /\ UNCHANGED <<upVars, subscribed_equities>>
    /\ end_call(c, "error")

\* The upstream call raised: except Exception prints, the set is not updated.
subscribe_options_except(c) ==
    /\ task[c] = "await" /\ call[c].cmd = "subscribe_options"
    /\ UNCHANGED <<upVars, subVars>>
    /\ end_call(c, "error")

subscribe_equities(c, symbols) ==
    begin_call(c, "subscribe_equities", symbols, subscribe_op(subscribed_equities),
               new_symbols(symbols, subscribed_equities))

subscribe_equities_return(c) ==
    /\ task[c] = "await" /\ call[c].cmd = "subscribe_equities"
    /\ session_live
    /\ upstream_equities' = upstream_apply(call[c].op, upstream_equities, call[c].syms)
    /\ subscribed_equities' = subscribed_equities \cup call[c].syms
    /\ UNCHANGED <<upstream_options, subscribed_options>>
    /\ end_call(c, "ok")

subscribe_equities_except(c) ==
    /\ task[c] = "await" /\ call[c].cmd = "subscribe_equities"
    /\ UNCHANGED <<upVars, subVars>>
    /\ end_call(c, "error")

unsubscribe_options(c, symbols) ==
    begin_call(c, "unsubscribe_options", symbols, "unsubs",
               to_remove(symbols, subscribed_options))

\* The upstream call returned: subscribed_options.difference_update(to_remove)
unsubscribe_options_return(c) ==
    /\ task[c] = "await" /\ call[c].cmd = "unsubscribe_options"
    /\ session_live
    /\ upstream_options' = upstream_apply(call[c].op, upstream_options, call[c].syms)
    /\ subscribed_options' = subscribed_options \ call[c].syms
    /\ UNCHANGED <<upstream_equities, subscribed_equities>>
    /\ end_call(c, "ok")

unsubscribe_options_except(c) ==
    /\ task[c] = "await" /\ call[c].cmd = "unsubscribe_options"
    /\ UNCHANGED <<upVars, subVars>>
    /\ end_call(c, "error")

\* ------------------------------------------------------- command handlers

\* Consumer c's channel is no longer open: c has not stayed connected through the
\* broadcasts in progress.
channel_lost(c) ==
    [b \in Broadcasters |->
        IF bc[b].pc = "send" THEN [bc[b] EXCEPT !.stayed = @ \ {c}] ELSE bc[b]]

\* The handler of c has discarded its websocket.  A later connection numbered c is
\* another websocket object, so the broadcasts in progress keep nothing about c.
channel_closed(c) ==
    [b \in Broadcasters |->
        IF bc[b].pc = "send"
        THEN [bc[b] EXCEPT !.stayed = @ \ {c}, !.start = @ \ {c},
                           !.visited = @ \ {c}, !.disconnected = @ \ {c}]
        ELSE bc[b]]

\* A consumer connects: connected_clients.add(websocket), then `async for`.
handle_node_connection(c) ==
    /\ conn[c] = "none"
    /\ conn' = [conn EXCEPT ![c] = "open"]
    /\ task' = [task EXCEPT ![c] = "idle"]
    /\ connected_clients' = connected_clients \cup {c}
    /\ out' = {}
    /\ UNCHANGED <<sessVars, upVars, subVars, call, bc, restVars>>
    /\ last' = NoCommand

\* The consumer's channel closed and `async for` raises ConnectionClosed:
\* finally connected_clients.discard(websocket)
handle_node_connection_closed(c) ==
    /\ conn[c] # "none" /\ task[c] = "idle"
    /\ conn' = [conn EXCEPT ![c] = "none"]
    /\ task' = [task EXCEPT ![c] = "none"]
    /\ connected_clients' = connected_clients \ {c}
    /\ bc' = channel_closed(c)
    /\ out' = {}
    /\ UNCHANGED <<sessVars, upVars, subVars, call, restVars>>
    /\ last' = NoCommand

\* The status message of get_status, built before the send.
status_message(c) ==
    [to |-> c, type |-> "status", connected |-> stream_client # None,
     subscribed_options |-> subscribed_options,
     subscribed_equities |-> subscribed_equities]

\* reply with the response handed to every connected client instead of the
\* requesting websocket.
reply_to_all(c, cmd, message, sent) ==
    /\ task[c] = "idle"
    /\ IF sent /\ conn[c] = "open"
       THEN /\ out' = {[message EXCEPT !.to = k] : k \in connected_clients}
            /\ last' = Completed(c, cmd, {}, "sent")
            /\ UNCHANGED <<connected_clients, conn, task, bc>>
       ELSE /\ out' = {}
            /\ bc' = channel_closed(c)
            /\ last' = Completed(c, cmd, {}, "closed")
            /\ conn' = [conn EXCEPT ![c] = "none"]
            /\ task' = [task EXCEPT ![c] = "none"]
            /\ connected_clients' = connected_clients \ {c}
    /\ UNCHANGED <<sessVars, upVars, subVars, call, restVars>>

\* `await websocket.send(message)` in the handler: the message is delivered, or
\* the channel has closed since the command was read (sent = FALSE) and send raises
\* ConnectionClosed, which only the outer try catches, so that the handler ends
\* through its finally clause.
reply(c, cmd, message, sent) ==
    /\ task[c] = "idle"
    /\ IF sent /\ conn[c] = "open"
       THEN /\ out' = {message}
            /\ last' = Completed(c, cmd, {}, "sent")
            /\ UNCHANGED <<connected_clients, conn, task, bc>>
       ELSE /\ out' = {}
            /\ bc' = channel_closed(c)
            /\ last' = Completed(c, cmd, {}, "closed")
            /\ conn' = [conn EXCEPT ![c] = "none"]
            /\ task' = [task EXCEPT ![c] = "none"]
            /\ connected_clients' = connected_clients \ {c}
    /\ UNCHANGED <<sessVars, upVars, subVars, call, restVars>>

get_status(c, sent) == reply(c, "get_status", status_message(c), sent)

ping(c, sent) == reply(c, "ping", [to |-> c, type |-> "pong"], sent)

\* The inbound messages that are not one of the five commands: text that is not
\* JSON, JSON that is not an object, an object whose command is unknown or absent,
\* and a subscription command whose symbols is not iterable (a number, null).
MalformedKinds == {"invalid_json", "not_object", "unknown_command", "symbols_not_list"}

\* handle_node_connection reads such a message.  json.loads raises JSONDecodeError,
\* which the inner except catches; an unknown command matches no branch.
\* data.get on a list, string or number raises AttributeError, and iterating the
\* symbols in a subscription function (before its try, once a handle exists)
\* raises TypeError: neither is caught, the handler leaves through its finally
\* clause and the server closes the connection.
handle_node_connection_malformed(c, kind) ==
    /\ task[c] = "idle"
    /\ IF kind = "not_object" \/ (kind = "symbols_not_list" /\ stream_client # None)
       THEN /\ last' = Completed(c, kind, {}, "raised")
            /\ conn' = [conn EXCEPT ![c] = "none"]
            /\ task' = [task EXCEPT ![c] = "none"]
            /\ connected_clients' = connected_clients \ {c}
            /\ bc' = channel_closed(c)
       ELSE /\ last' = Completed(c, kind, {}, "ignored")
            /\ UNCHANGED <<connected_clients, conn, task, bc>>
    /\ out' = {}
    /\ UNCHANGED <<sessVars, upVars, subVars, call, restVars>>

\* ------------------------------------------------------------ broadcast hub

\* The consumer's channel closes; its handler task has not run since.
connection_lost(c) ==
    /\ conn[c] = "open"
    /\ conn' = [conn EXCEPT ![c] = "broken"]
    /\ bc' = channel_lost(c)
    /\ out' = {}
    /\ last' = NoCommand
    /\ UNCHANGED <<sessVars, upVars, subVars, connected_clients, task, call, restVars>>

\* One turn of `for client in connected_clients`, entered with the iterator's next
\* client k: `await client.send(message)` delivers on an open channel and raises
\* ConnectionClosed on a closed one, which puts the client in `disconnected`.  The
\* task may be suspended in the send.
broadcast_send(b, k) ==
    [b EXCEPT !.pc = "send",
              !.visited = @ \cup {k},
              !.disconnected = IF conn[k] = "open" THEN @ ELSE @ \cup {k}]

\* broadcast_to_node from its first line to the first send: nothing is done
\* without clients; otherwise the iteration over the set begins.
broadcast_to_node(b) ==
    /\ bc[b].pc = "idle"
    /\ IF connected_clients = {}
       THEN bc' = [bc EXCEPT ![b] = [NoBroadcast EXCEPT !.res = "done"]]
       ELSE \E k \in connected_clients :
              bc' = [bc EXCEPT ![b] = broadcast_send(
                        [NoBroadcast EXCEPT !.used = Cardinality(connected_clients),
                                            !.start = connected_clients,
                                            !.stayed = {c \in connected_clients :
                                                            conn[c] = "open"}], k)]
    /\ out' = {}
    /\ last' = NoCommand
    /\ UNCHANGED <<sessVars, upVars, subVars, consVars, call, restVars>>

\* status_broadcast: the heartbeat, every 60 seconds once main has created the task.
status_broadcast ==
    /\ sup \notin {"main", "main_login"}
    /\ broadcast_to_node("status_broadcast")

\* stream_message_loop: handle_message received an event and the stream handler
\* (option quote, equity quote or account activity) broadcasts it.
handle_message ==
    /\ rx = "running"
    /\ broadcast_to_node("stream_message_loop")

\* What ends a broadcast that a RuntimeError aborts: status_broadcast has no except
\* clause and its task ends; the stream handlers catch Exception and return to the
\* receive loop.
after_abort(b) == IF b = "status_broadcast" THEN "dead" ELSE "idle"

\* The task resumes from a send and asks the set iterator for the next client.
\* The iterator raises RuntimeError if the set's size differs from the size at the
\* start of the iteration.  Otherwise it yields the clients of the start that are
\* still in the set and not yet visited, and may or may not yield a client added
\* since; when it is exhausted, connected_clients.difference_update(disconnected).
broadcast_resume(b) ==
    /\ bc[b].pc = "send"
    /\ IF Cardinality(connected_clients) # bc[b].used
       THEN /\ bc' = [bc EXCEPT ![b].pc = after_abort(b), ![b].res = "aborted"]
            /\ UNCHANGED connected_clients
       ELSE LET must == (bc[b].start \cap connected_clients) \ bc[b].visited
                may == (connected_clients \ bc[b].start) \ bc[b].visited
            IN \/ \E k \in must \cup may :
                    /\ bc' = [bc EXCEPT ![b] = broadcast_send(bc[b], k)]
                    /\ UNCHANGED connected_clients
               \/ /\ must = {}
                  /\ bc' = [bc EXCEPT ![b].pc = "idle", ![b].res = "done"]
                  /\ connected_clients' = connected_clients \ bc[b].disconnected
    /\ out' = {}
    /\ last' = NoCommand
    /\ UNCHANGED <<sessVars, upVars, subVars, conn, task, call, restVars>>

\* ---------------------------------------------------------------- the relay
Next ==
    \/ \E outcome \in ConnectOutcomes : main_connect(outcome)
    \/ reconnect_loop
    \/ connect_login_ok
    \/ connect_login_except
    \/ stream_message_loop_exit
    \/ \E c \in Consumers :
          \/ handle_node_connection(c)
          \/ handle_node_connection_closed(c)
          \/ \E symbols \in SUBSET OptionSymbols :
                \/ subscribe_options(c, symbols)
                \/ unsubscribe_options(c, symbols)
          \/ \E symbols \in SUBSET EquitySymbols : subscribe_equities(c, symbols)
          \/ subscribe_options_return(c)
          \/ subscribe_options_except(c)
          \/ subscribe_equities_return(c)
          \/ subscribe_equities_except(c)
          \/ unsubscribe_options_return(c)
          \/ unsubscribe_options_except(c)
          \/ \E sent \in BOOLEAN : get_status(c, sent) \/ ping(c, sent)
          \/ \E kind \in MalformedKinds : handle_node_connection_malformed(c, kind)

Spec == Init /\ [][Next]_vars

\* The session supervisor, the consumers' connections and the broadcasts.
HubNext ==
    \/ \E outcome \in ConnectOutcomes : main_connect(outcome)
    \/ reconnect_loop
    \/ connect_login_ok
    \/ connect_login_except
    \/ stream_message_loop_exit
    \/ status_broadcast
    \/ handle_message
    \/ \E b \in Broadcasters : broadcast_resume(b)
    \/ \E c \in Consumers :
          \/ handle_node_connection(c)
          \/ connection_lost(c)
          \/ handle_node_connection_closed(c)

HubSpec == Init /\ [][HubNext]_vars

\* ---------------------------------------------------------- quote handlers
\* handle_option_quote and handle_equity_quote have the same shape: one try around
\* the loop over msg['content'], each item normalised and handed to
\* broadcast_to_node.  An item is "ok" or "malformed" (its processing raises, as
\* item.get does on an item that is not a dict).
QuoteHandlers == {"handle_option_quote", "handle_equity_quote"}
Contents == UNION {[1..n -> {"ok", "malformed"}] : n \in 0..MaxItems}

\* The loop from item i on, run without suspension: the item at which it stops.
\* It stops at the end of the list, at a malformed item (the exception leaves the
\* loop) and at an item to send when clients are connected; with no client
\* broadcast_to_node returns at once and the loop goes on.
RECURSIVE loop_stop(_, _, _)
loop_stop(content, i, clients) ==
    IF i > Len(content) \/ content[i] = "malformed" \/ clients # {}
    THEN i
    ELSE loop_stop(content, i + 1, clients)

\* The handler runs its loop from item i, with the items in `done` broadcast and
\* `prev` the last broadcast_to_node call: it returns after the last item, leaves
\* through `except Exception` at a malformed item, or suspends in the first send
\* of the broadcast of the next item.
quote_loop(handler, content, i, done, clients, prev) ==
    LET j == loop_stop(content, i, clients)
        passed == done \cup (i..(j - 1))
        returned == IF j > i THEN [NoBroadcast EXCEPT !.res = "done"] ELSE prev
    IN IF j > Len(content) \/ content[j] = "malformed"
       THEN /\ quote' = [pc |-> "idle", handler |-> handler, content |-> content, i |-> j,
                         broadcast |-> passed,
                         res |-> IF j > Len(content) THEN "done" ELSE "error"]
            /\ bc' = [bc EXCEPT !["stream_message_loop"] = returned]
       ELSE /\ quote' = [pc |-> "send", handler |-> handler, content |-> content, i |-> j,
                         broadcast |-> passed, res |-> "none"]
            /\ \E k \in clients :
                  bc' = [bc EXCEPT !["stream_message_loop"] = broadcast_send(
                            [NoBroadcast EXCEPT !.used = Cardinality(clients),
                                                !.start = clients,
                                                !.stayed = {c \in clients : conn[c] = "open"}],
                            k)]

\* stream_message_loop: handle_message received a quote event and calls the
\* handler registered for it.
handle_quote(handler, content) ==
    /\ rx = "running"
    /\ bc["stream_message_loop"].pc = "idle"
    /\ quote_loop(handler, content, 1, {}, connected_clients, bc["stream_message_loop"])
    /\ out' = {}
    /\ last' = NoCommand
    /\ UNCHANGED <<sessVars, upVars, subVars, consVars, call, procVars, codec, taskVars>>

\* The handler resumes from a send of its broadcast.  A RuntimeError of the set
\* iterator leaves broadcast_to_node and the loop through `except Exception`.  When
\* the iterator is exhausted the broadcast ends with difference_update and the loop
\* goes on with the next item.
quote_resume ==
    /\ quote.pc = "send"
    /\ bc["stream_message_loop"].pc = "send"
    /\ LET b == bc["stream_message_loop"]
           must == (b.start \cap connected_clients) \ b.visited
           may == (connected_clients \ b.start) \ b.visited
           left == connected_clients \ b.disconnected
       IN IF Cardinality(connected_clients) # b.used
          THEN /\ quote' = [quote EXCEPT !.pc = "idle", !.res = "error"]
               /\ bc' = [bc EXCEPT !["stream_message_loop"].pc = "idle",
                                   !["stream_message_loop"].res = "aborted"]
               /\ UNCHANGED connected_clients
          ELSE \/ /\ \E k \in must \cup may :
                        bc' = [bc EXCEPT !["stream_message_loop"] = broadcast_send(b, k)]
                  /\ UNCHANGED <<quote, connected_clients>>
               \/ /\ must = {}
                  /\ connected_clients' = left
                  /\ quote_loop(quote.handler, quote.content, quote.i + 1,
                                quote.broadcast \cup {quote.i}, left,
                                [b EXCEPT !.pc = "idle", !.res = "done"])
    /\ out' = {}
    /\ last' = NoCommand
    /\ UNCHANGED <<sessVars, upVars, subVars, conn, task, call, procVars, codec, taskVars>>

\* The session supervisor, the consumers' connections and the quote events.
QuoteNext ==
    \/ \E outcome \in ConnectOutcomes : main_connect(outcome)
    \/ reconnect_loop
    \/ connect_login_ok
    \/ connect_login_except
    \/ stream_message_loop_exit
    \/ \E handler \in QuoteHandlers, content \in Contents : handle_quote(handler, content)
    \/ quote_resume
    \/ \E c \in Consumers :
          \/ handle_node_connection(c)
          \/ connection_lost(c)
          \/ handle_node_connection_closed(c)

QuoteSpec == Init /\ [][QuoteNext]_vars

\* ---------------------------------------------------------------- shutdown
\* What ends the process: sys.exit(0) in signal_handler (SystemExit), a
\* KeyboardInterrupt, or the cancellation of the main task.
ExitCauses == {"SystemExit", "KeyboardInterrupt", "CancelledError"}

\* The end of asyncio.run(main()): every task is cancelled.  main, waiting in
\* `await asyncio.Future()`, catches CancelledError and its finally clause closes
\* ws_server; while main is still in connect_to_schwab the cancellation leaves
\* main before its try and nothing closes ws_server.  The handler tasks leave
\* through their finally clause and the receive loop ends.  No path logs out of or
\* closes stream_client.
main_exit(cause) ==
    /\ proc = "running"
    /\ proc' = cause
    /\ ws_server' = IF sup \in {"main", "main_login"} THEN ws_server ELSE "closed"
    /\ rx' = IF rx = "running" THEN "exited" ELSE rx
    /\ connected_clients' = {}
    /\ conn' = [c \in Consumers |-> "none"]
    /\ task' = [c \in Consumers |-> "none"]
    /\ call' = [c \in Consumers |-> NoCall]
    /\ bc' = [b \in Broadcasters |-> NoBroadcast]
    /\ quote' = NoQuote
    /\ attempts' = 0
    /\ loops' = 0
    /\ last' = NoCommand
    /\ out' = {}
    /\ UNCHANGED <<stream_client, sup, connect_result, session_live, upVars, subVars, codec>>

\* SIGINT: signal_handler prints and calls sys.exit(0).
signal_handler == main_exit("SystemExit")

\* asyncio.run(main()) raises KeyboardInterrupt, caught in the __main__ block.
keyboard_interrupt == main_exit("KeyboardInterrupt")

\* The main task is cancelled: the cancellation is delivered at one of its awaits,
\* the login of connect_to_schwab or `await asyncio.Future()`.
main_cancelled ==
    /\ sup # "main"
    /\ main_exit("CancelledError")

\* The relay until the process ends.
ShutdownNext ==
    \/ proc = "running" /\ Next
    \/ signal_handler
    \/ keyboard_interrupt
    \/ main_cancelled

ShutdownSpec == Init /\ [][ShutdownNext]_vars

\* The supervisor's poll finds no handle and the upstream accepts the credentials
\* and the account lookup.
reconnect_accepted ==
    /\ sup = "reconnect"
    /\ stream_client = None
    /\ connect_to_schwab("reconnect_login", "login")

\* The event loop runs the poll task every 30 seconds, and the upstream accepts
\* the authentication, the account lookup and the login.
LiveSpec ==
    /\ Init
    /\ [][Next]_vars
    /\ WF_vars(reconnect_loop)
    /\ WF_vars(reconnect_accepted)
    /\ SF_vars(connect_login_ok)

\* ------------------------------------------------------------ symbol codec
\* occ_converter.py.  The inputs of the conversions: tickers of at most 6
\* characters, calendar dates, strikes of at most 3 decimals below 100000 (in
\* thousandths) and the option types put and call.
Tickers == {<<"A", "A", "P", "L">>, <<"a", "a", "p", "l">>, <<"F">>,
            <<"G", "O", "O", "G", "L">>, <<"B", "R", "K", " ", "B">>}
Expiries == {[year |-> 2026, month |-> 2, day |-> 21], [year |-> 2024, month |-> 2, day |-> 29],
             [year |-> 2068, month |-> 12, day |-> 31], [year |-> 2069, month |-> 1, day |-> 1],
             [year |-> 1999, month |-> 12, day |-> 31]}
Strikes == {0, 1, 500, 1000, 1001, 1002, 1005, 150500, 200000, 99999999}
OptionTypes == {"put", "call"}

Lower == <<"a", "b", "c", "d", "e", "f", "g", "h", "i", "j", "k", "l", "m",
           "n", "o", "p", "q", "r", "s", "t", "u", "v", "w", "x", "y", "z">>
Upper == <<"A", "B", "C", "D", "E", "F", "G", "H", "I", "J", "K", "L", "M",
           "N", "O", "P", "Q", "R", "S", "T", "U", "V", "W", "X", "Y", "Z">>
Digits == <<"0", "1", "2", "3", "4", "5", "6", "7", "8", "9">>

\* What a conversion that raises ValueError yields.
ValueError == [raised |-> "ValueError"]

\* str.upper()
upper(text) ==
    [i \in 1..Len(text) |->
        IF \E j \in 1..Len(Lower) : Lower[j] = text[i]
        THEN Upper[CHOOSE j \in 1..Len(Lower) : Lower[j] = text[i]]
        ELSE text[i]]

\* str.ljust(width) and str.zfill(width)
ljust(text, width) ==
    IF Len(text) >= width THEN text ELSE text \o [i \in 1..(width - Len(text)) |-> " "]
zfill(text, width) ==
    IF Len(text) >= width THEN text ELSE [i \in 1..(width - Len(text)) |-> "0"] \o text

\* str.strip(): the text without its leading and trailing spaces.
RECURSIVE lstrip(_)
lstrip(text) ==
    IF text # <<>> /\ Head(text) = " " THEN lstrip(Tail(text)) ELSE text
RECURSIVE rstrip(_)
rstrip(text) ==
    IF text # <<>> /\ text[Len(text)] = " "
    THEN rstrip(SubSeq(text, 1, Len(text) - 1)) ELSE text
strip(text) == rstrip(lstrip(text))

\* str(n) of a natural number, and int(text) of a text of digits.
RECURSIVE str(_)
str(n) == IF n < 10 THEN <<Digits[n + 1]>> ELSE str(n \div 10) \o <<Digits[(n % 10) + 1]>>
IsNumber(text) ==
    text # <<>> /\ \A i \in 1..Len(text) : \E d \in 1..10 : Digits[d] = text[i]
RECURSIVE int(_)
int(text) ==
    IF text = <<>> THEN 0
    ELSE 10 * int(SubSeq(text, 1, Len(text) - 1))
           + (CHOOSE d \in 0..9 : Digits[d + 1] = text[Len(text)])

\* The days of a month, for datetime's validation.
DaysIn(year, month) ==
    IF month = 2
    THEN IF year % 4 = 0 /\ (year % 100 # 0 \/ year % 400 = 0) THEN 29 ELSE 28
    ELSE IF month \in {4, 6, 9, 11} THEN 30 ELSE 31

\* exp_date.strftime("%y%m%d")
strftime_yymmdd(date) ==
    zfill(str(date.year % 100), 2) \o zfill(str(date.month), 2) \o zfill(str(date.day), 2)

\* datetime.strptime(date_str, "%y%m%d"): a two-digit year up to 68 is 20yy, from
\* 69 on 19yy; ValueError for what is no calendar date.
strptime_yymmdd(text) ==
    IF ~IsNumber(text) THEN ValueError
    ELSE LET yy == int(SubSeq(text, 1, 2))
             year == IF yy <= 68 THEN 2000 + yy ELSE 1900 + yy
             month == int(SubSeq(text, 3, 4))
             day == int(SubSeq(text, 5, 6))
         IN IF month \in 1..12 /\ day \in 1..DaysIn(year, month)
            THEN [year |-> year, month |-> month, day |-> day]
            ELSE ValueError

\* The strikes of the model, in thousandths n, whose product strike * 1000 in
\* double arithmetic lies just below n (1.001 * 1000 = 1000.9999999999999).
ProductBelow == {n \in 1001..1023 : n % 2 = 1}

\* strike_int = int(strike * 1000): int() truncates the double product.
int_times_1000(strike) == IF strike \in ProductBelow THEN strike - 1 ELSE strike

\* 'put' in opt_type / 'call' in opt_type, for the option types of the model.
put_or_call(option_type) ==
    IF option_type = "put" THEN "P" ELSE IF option_type = "call" THEN "C" ELSE "ValueError"

position_to_occ(ticker, expiry, strike, option_type) ==
    ljust(upper(ticker), 6) \o strftime_yymmdd(expiry) \o <<put_or_call(option_type)>>
        \o zfill(str(int_times_1000(strike)), 8)

occ_to_position(occ_symbol) ==
    LET occ == strip(upper(occ_symbol))
    IN IF Len(occ) < 21 THEN ValueError
       ELSE LET exp_date == strptime_yymmdd(SubSeq(occ, 7, 12))
                strike_str == SubSeq(occ, 14, 21)
            IN IF exp_date = ValueError \/ ~IsNumber(strike_str) THEN ValueError
               ELSE [ticker |-> strip(SubSeq(occ, 1, 6)),
                     expiry |-> exp_date,
                     strike |-> int(strike_str),
                     optionType |-> IF occ[13] = "P" THEN "put" ELSE "call"]

\* A caller converts a position to its OCC symbol, then parses the symbol back.
CodecInit ==
    /\ RelayInit
    /\ \E ticker \in Tickers, expiry \in Expiries, strike \in Strikes,
          option_type \in OptionTypes :
          codec = [NoCodec EXCEPT !.pc = "position", !.ticker = ticker, !.expiry = expiry,
                                  !.strike = strike, !.option_type = option_type]

encode ==
    /\ codec.pc = "position"
    /\ codec' = [codec EXCEPT !.pc = "occ",
                   !.occ = position_to_occ(codec.ticker, codec.expiry, codec.strike,
                                           codec.option_type)]
    /\ UNCHANGED <<sessVars, upVars, subVars, consVars, call, bc, last, out, procVars, quote, taskVars>>

decode ==
    /\ codec.pc = "occ"
    /\ codec' = [codec EXCEPT !.pc = "decoded", !.decoded = occ_to_position(codec.occ)]
    /\ UNCHANGED <<sessVars, upVars, subVars, consVars, call, bc, last, out, procVars, quote, taskVars>>

CodecNext == encode \/ decode

CodecSpec == CodecInit /\ [][CodecNext]_vars

\* ------------------------------------------------------------------ claims

\* A live upstream session: logged in, with its receive loop running.
LiveSession == session_live /\ rx = "running"

\* No upstream subscribe/unsubscribe call is in flight.
NoCallInFlight == \A c \in Consumers : task[c] # "await"

\* C1: after the receive loop has exited, the session eventually streams again
\* with a receive loop running (under the fairness of LiveSpec).
C1_ReconnectsAfterExit == (rx = "exited") ~> LiveSession

\* C2: once the receive loop has exited, and while no new connect attempt is in
\* progress, the session handle stream_client is None.
C2_HandleDiscardedOnExit ==
    (rx = "exited" /\ sup = "reconnect") => stream_client = None

\* C3: every failed connect attempt (missing key or secret, client or account
\* lookup failure, empty account list, login failure) leaves stream_client None.
C3_FailedNotHeld ==
    connect_result \in ConnectFailures \cup {"login_failed"} => stream_client = None

\* C4: with no upstream call in flight, the tracked sets equal the sets of symbols
\* active on the upstream session.
C4_TrackedSetsMatchUpstream ==
    NoCallInFlight =>
        /\ subscribed_options = upstream_options
        /\ subscribed_equities = upstream_equities

\* C5: an operation whose upstream call fails changes neither tracked set: not
\* in the step that issues the call, and not in the step in which the call fails.
C5_NoPartialApply ==
    [][\A c \in Consumers :
          /\ (task[c] = "idle" /\ task'[c] = "await") => UNCHANGED subVars
          /\ (task[c] = "await" /\ task'[c] = "idle" /\ last'.res = "error")
                => UNCHANGED subVars]_vars

\* A subscription operation has failed upstream on a live session that has
\* subscriptions.
C5_Witness ==
    /\ last.res = "error"
    /\ last.cmd \in {"subscribe_options", "subscribe_equities", "unsubscribe_options"}
    /\ LiveSession
    /\ subscribed_options # {}

\* The step is a subscribe_options request for the symbols of the request that
\* has just completed, and it issues an upstream call.
SecondRequestCalls ==
    \E c \in Consumers :
        /\ task[c] = "idle" /\ task'[c] = "await"
        /\ call'[c].cmd = "subscribe_options"
        /\ call'[c].symbols = last.symbols

\* The step is a subscribe_options request for the symbols of the request that
\* has just completed, and it returns without an upstream call.
SecondRequestReturns ==
    /\ last'.cmd = "subscribe_options"
    /\ last'.symbols = last.symbols
    /\ last'.res \in {"noop", "no_session"}

\* C6 as stated: a subscribe_options request for S that follows a request for S
\* which issued an upstream call (successful or not) issues no upstream call.
C6_Idempotent_AsStated ==
    [][(last.cmd = "subscribe_options" /\ last.res \in {"ok", "error"})
          => ~SecondRequestCalls]_vars

\* C6 as amended: a subscribe_options request for S directly after a request for
\* S whose upstream call succeeded, with all of S still in the tracked set, makes
\* no upstream call and leaves the tracked sets and the upstream subscription
\* unchanged.
C6_Idempotent ==
    [][(/\ last.cmd = "subscribe_options" /\ last.res = "ok"
        /\ last.symbols \subseteq subscribed_options)
          => /\ ~SecondRequestCalls
             /\ SecondRequestReturns
                   => /\ last'.res = "noop"
                      /\ UNCHANGED <<subVars, upVars, call>>]_vars

\* A second request for a non-empty S has returned as a no-op right after the
\* first one succeeded.
C6_Witness ==
    /\ last.cmd = "subscribe_options"
    /\ last.res = "noop"
    /\ last.repeats
    /\ last.symbols # {}

\* C9: the connected field of a status response is true exactly if a live
\* upstream session exists.
C9_StatusTruthful ==
    \A m \in out : m.type = "status" => (m.connected <=> LiveSession)

\* The status message C10 expects for the consumer of the command just completed.
ExpectedStatus ==
    [to |-> last'.who, type |-> "status", connected |-> stream_client # None,
     subscribed_options |-> subscribed_options,
     subscribed_equities |-> subscribed_equities]

\* C10 as stated: every get_status command delivers exactly one message, the status
\* with the tracked sets of that moment, to the requesting consumer alone, and
\* changes neither tracked set nor the consumer set and makes no upstream call.
C10_GetStatus_AsStated ==
    [][last'.cmd = "get_status"
          => /\ out' = {ExpectedStatus}
             /\ UNCHANGED <<subVars, upVars, call, connected_clients>>]_vars

\* C10 as amended: the same on a connection that is open when the response is sent;
\* on a connection that has closed the send raises, nothing is delivered and the
\* requesting consumer alone leaves connected_clients.  In both cases the tracked
\* sets are unchanged and no upstream call is made.
C10_GetStatus ==
    [][last'.cmd = "get_status"
          => /\ UNCHANGED <<subVars, upVars, call>>
             /\ IF last'.res = "sent"
                THEN /\ out' = {ExpectedStatus}
                     /\ UNCHANGED connected_clients
                ELSE /\ out' = {}
                     /\ connected_clients' = connected_clients \ {last'.who}]_vars

\* A status response has been delivered while another consumer is connected and
\* options are subscribed.
C10_Witness ==
    /\ last.cmd = "get_status"
    /\ last.res = "sent"
    /\ Cardinality(connected_clients) > 1
    /\ subscribed_options # {}
    /\ \E m \in out : m.type = "status" /\ m.to = last.who

\* The consumers a finished broadcast has delivered its message to.
Delivered(b) == bc[b].visited \ bc[b].disconnected

\* C7: when a broadcast in which a send failed ends, exactly the consumers whose
\* send failed leave connected_clients, and every other consumer whose channel
\* stayed open has received the message.
C7_FanOutIndependent ==
    [][\A b \in Broadcasters :
          (bc[b].pc = "send" /\ bc'[b].pc # "send" /\ bc[b].disconnected # {})
             => /\ connected_clients' = connected_clients \ bc[b].disconnected
                /\ bc[b].stayed \subseteq Delivered(b)]_vars

\* C8: a broadcast that has ended has delivered its message to every consumer
\* that stayed connected for the whole broadcast.
C8_BroadcastReachesAll ==
    \A b \in Broadcasters :
        bc[b].res \in {"done", "aborted"} => bc[b].stayed \subseteq Delivered(b)

\* The step in which consumer c's handler suspends in the upstream call of cmd.
CallIssued(c, cmd) ==
    task[c] = "idle" /\ task'[c] = "await" /\ call'[c].cmd = cmd

\* The step in which the upstream call of consumer c's cmd returns.
CallReturned(c, cmd) ==
    task[c] = "await" /\ task'[c] = "idle" /\ call[c].cmd = cmd /\ last'.res = "ok"

\* C11 as stated: when the upstream call of unsubscribe_options(symbols) returns,
\* the tracked options set is the set before the update minus symbols.
C11_DisjointRemoval_AsStated ==
    [][\A c \in Consumers :
          CallReturned(c, "unsubscribe_options")
             => subscribed_options' = subscribed_options \ call[c].symbols]_vars

\* C11 as amended: unsubscribe_options(symbols) passes exactly symbols \cap tracked
\* set to the upstream unsubscribe and makes no call (and changes nothing) when that
\* is empty; when the call returns, exactly the symbols passed leave the tracked
\* options set and the upstream subscription, the equities set and the consumer's
\* connection are unchanged, and the set is (set before minus symbols) if no
\* other symbol of the command was subscribed while the call was in flight.
C11_DisjointRemoval ==
    [][\A c \in Consumers :
          /\ CallIssued(c, "unsubscribe_options")
                => /\ call'[c].op = "unsubs"
                   /\ call'[c].syms = call'[c].symbols \cap subscribed_options
                   /\ call'[c].syms # {}
                   /\ UNCHANGED <<subVars, upVars>>
          /\ (last'.who = c /\ last'.cmd = "unsubscribe_options" /\ last'.res = "noop")
                => /\ last'.symbols \cap subscribed_options = {}
                   /\ UNCHANGED <<subVars, upVars, call, consVars>>
          /\ CallReturned(c, "unsubscribe_options")
                => /\ subscribed_options' = subscribed_options \ call[c].syms
                   /\ upstream_options' = upstream_options \ call[c].syms
                   /\ UNCHANGED <<subscribed_equities, upstream_equities,
                                  connected_clients, conn>>
                   /\ (call[c].symbols \cap subscribed_options = call[c].syms
                         => subscribed_options' = subscribed_options \ call[c].symbols)
      ]_vars

\* An unsubscribe_options for both option symbols has returned on a live session
\* and one of its symbols, subscribed while the call was in flight, is tracked.
C11_Witness ==
    /\ last.cmd = "unsubscribe_options"
    /\ last.res = "ok"
    /\ last.symbols = OptionSymbols
    /\ Cardinality(subscribed_options) = 1
    /\ LiveSession

\* C12: a message that is not valid JSON, is JSON of the wrong shape or names an
\* unknown command gets no response, changes neither tracked set nor the consumer
\* set, and leaves the consumer's connection open and its handler reading commands.
C12_MalformedIgnored ==
    [][last'.cmd \in MalformedKinds
          => /\ out' = {}
             /\ UNCHANGED <<subVars, connected_clients, conn, task>>]_vars

\* The step in which a connect attempt succeeds: login() has returned and
\* connect_to_schwab returns True.
ConnectSucceeds ==
    sup \in {"main_login", "reconnect_login"} /\ sup' = "reconnect" /\ connect_result' = "ok"

ConnectFindsTrackedEmpty ==
    [][ConnectSucceeds => subscribed_options = {} /\ subscribed_equities = {}]_vars

\* C14: while the upstream call of a consumer's command is in flight, no other
\* command of that consumer is processed: the call stays as it is until the step
\* that completes that very command, whatever the other consumers' tasks do.
C14_PerConsumerOrder ==
    [][\A c \in Consumers :
          call[c] # NoCall
             => \/ call'[c] = call[c] /\ last'.who # c
                \/ /\ call'[c] = NoCall
                   /\ last'.who = c
                   /\ last'.cmd = call[c].cmd
                   /\ last'.symbols = call[c].symbols]_vars

\* Another consumer's command has completed while a consumer's call is in flight.
C14_Witness ==
    \E c, d \in Consumers :
        /\ c # d
        /\ task[c] = "await"
        /\ last.who = d
        /\ last.res \in {"ok", "sent"}

\* C15: once the process has ended, the downstream listener is closed and no
\* streaming session is left open.
C15_ShutdownReleasesBoth ==
    proc # "running" => ws_server = "closed" /\ ~session_live

\* C16: the position parsed from the OCC symbol of a position has that position's
\* ticker, date, strike and class.  Stated for the positions whose ticker is in
\* upper case and whose year the two-digit year of the symbol can tell (1969 to
\* 2068): the symbol format itself cannot return the others.
C16_RoundTrip ==
    (/\ codec.pc = "decoded"
     /\ codec.ticker = upper(codec.ticker)
     /\ codec.expiry.year \in 1969..2068)
        => codec.decoded = [ticker |-> codec.ticker, expiry |-> codec.expiry,
                            strike |-> codec.strike, optionType |-> codec.option_type]

\* C17: when a quote handler has ended, every well-formed item of the event has
\* been normalised and handed to a broadcast that completed, whatever the other
\* items of the event are.
C17_BatchResilience ==
    (quote.pc = "idle" /\ quote.res # "none")
        => \A i \in 1..Len(quote.content) :
              quote.content[i] = "ok" => i \in quote.broadcast

\* The tracked set and the upstream subscription a subscribe command works on.
TrackedOf(cmd) ==
    IF cmd = "subscribe_options" THEN subscribed_options ELSE subscribed_equities
UpstreamOf(cmd) ==
    IF cmd = "subscribe_options" THEN upstream_options ELSE upstream_equities

\* C18: a subscribe command returns without a call only if no handle exists or no
\* symbol is new; otherwise it issues one call carrying exactly the symbols not
\* tracked, with the add operation if the tracked set of its class is non-empty at
\* the call and the initial subscription if it is empty; when the call returns the
\* tracked set becomes its union with the symbols of the call, the upstream
\* subscription is replaced (initial) or extended (add) by them and the sets of the
\* other class are unchanged.
C18_SubscribeMode ==
    [][\A c \in Consumers : \A cmd \in {"subscribe_options", "subscribe_equities"} :
          /\ CallIssued(c, cmd)
                => /\ call'[c].syms = call'[c].symbols \ TrackedOf(cmd)
                   /\ call'[c].syms # {}
                   /\ call'[c].op = IF TrackedOf(cmd) # {} THEN "add" ELSE "subs"
                   /\ UNCHANGED <<subVars, upVars>>
          /\ (last'.who = c /\ last'.cmd = cmd /\ last'.res = "noop")
                => last'.symbols \subseteq TrackedOf(cmd) /\ stream_client # None
          /\ (last'.who = c /\ last'.cmd = cmd /\ last'.res = "no_session")
                => stream_client = None
          /\ CallReturned(c, cmd)
                => /\ TrackedOf(cmd)' = TrackedOf(cmd) \cup call[c].syms
                   /\ UpstreamOf(cmd)' = IF call[c].op = "subs" THEN call[c].syms
                                         ELSE UpstreamOf(cmd) \cup call[c].syms
                   /\ cmd = "subscribe_options"
                         => UNCHANGED <<subscribed_equities, upstream_equities>>
                   /\ cmd = "subscribe_equities"
                         => UNCHANGED <<subscribed_options, upstream_options>>]_vars

\* A subscribe_options command that names a tracked and a new symbol is waiting in
\* an add call for the new one, after an initial subscription that succeeded.
C18_Witness ==
    \E c \in Consumers :
        /\ task[c] = "await"
        /\ call[c].cmd = "subscribe_options"
        /\ call[c].op = "add"
        /\ call[c].syms # call[c].symbols
        /\ upstream_options = subscribed_options
        /\ subscribed_options # {}

\* C19: a step changes a tracked set only if it is the return of the upstream call
\* of subscribe_options, subscribe_equities or unsubscribe_options (for the set of
\* that command), and changes connected_clients only if it is
\* handle_node_connection adding its websocket, a handler task ending and
\* discarding its websocket, or broadcast_to_node ending and removing its
\* `disconnected` set; every other step (connect attempts, the receive loop and
\* its exit, the supervisor's polls, quote handling, get_status, ping) leaves them
\* as they are.
C19_OwnershipFrame ==
    [][/\ subscribed_options' # subscribed_options
            => \E c \in Consumers :
                  \/ CallReturned(c, "subscribe_options")
                  \/ CallReturned(c, "unsubscribe_options")
       /\ subscribed_equities' # subscribed_equities
            => \E c \in Consumers : CallReturned(c, "subscribe_equities")
       /\ connected_clients' # connected_clients
            => \/ \E c \in Consumers :
                     /\ conn[c] = "none" /\ conn'[c] = "open"
                     /\ connected_clients' = connected_clients \cup {c}
               \/ \E c \in Consumers :
                     /\ task[c] # "none" /\ task'[c] = "none"
                     /\ connected_clients' = connected_clients \ {c}
               \/ \E b \in Broadcasters :
                     /\ bc[b].pc = "send"
                     /\ (bc[b].start \cap connected_clients) \subseteq bc[b].visited
                     /\ connected_clients' = connected_clients \ bc[b].disconnected
               \/ proc' # "running" /\ connected_clients' = {}]_vars

\* The receive loop has exited and a ping has just been answered while both
\* tracked sets hold symbols.
C19_Witness ==
    /\ rx = "exited"
    /\ last.cmd = "ping"
    /\ last.res = "sent"
    /\ subscribed_options # {}
    /\ subscribed_equities # {}

\* C20: on a live session, once the consumers' subscription commands have
\* completed (no call in flight), every symbol of the tracked options set is
\* active upstream.
C20_InterleavedSubscribes ==
    (LiveSession /\ NoCallInFlight) => subscribed_options \subseteq upstream_options

\* A step starts a connect attempt: a connect_to_schwab call suspends in login(),
\* or one returns False before the login with a new failure.
ConnectStarts ==
    \/ attempts' > attempts
    \/ connect_result' \in ConnectFailures /\ connect_result' # connect_result

\* A step creates a stream_message_loop task.
LoopStarts == loops' > loops

\* C21: at most one stream_message_loop task is running and at most one connect
\* attempt is in progress; the supervisor (main's first connect, then
\* reconnect_loop) starts a connect attempt only when stream_client is None, and
\* creates a receive loop only in the step in which a connect attempt succeeds.
C21_SingleSessionSingleLoop ==
    [][/\ loops' <= 1
       /\ attempts' <= 1
       /\ ConnectStarts => stream_client = None
       /\ LoopStarts => /\ attempts' = attempts - 1
                        /\ connect_result' = "ok"
                        /\ session_live'
                        /\ stream_client' # None]_vars

\* The supervisor has connected and the receive loop it created is running, with
\* reconnect_loop polling next to it.
C21_Witness ==
    /\ loops = 1
    /\ attempts = 0
    /\ rx = "running"
    /\ connect_result = "ok"
    /\ sup = "reconnect"
    /\ stream_client # None

\* The commands that go to the subscription functions.
SubscriptionCommands == {"subscribe_options", "subscribe_equities", "unsubscribe_options"}

\* C22: while stream_client is None, a subscribe_options, subscribe_equities or
\* unsubscribe_options command returns at the handle test: no upstream call is
\* started or kept pending, both tracked sets and the upstream subscriptions are
\* unchanged, nothing is sent, and the step leaves no state behind from which the
\* command could be applied after a later connect.
C22_DroppedWithoutSession ==
    [][stream_client = None
          => /\ call' = call
             /\ \A c \in Consumers : task'[c] # "await"
             /\ last'.cmd \in SubscriptionCommands
                   => /\ last'.res = "no_session"
                      /\ out' = {}
                      /\ UNCHANGED <<sessVars, upVars, subVars, consVars, call, bc,
                                     restVars>>]_vars

\* A consumer's subscribe command for a symbol has just been dropped for want of a
\* session handle.
C22_Witness ==
    /\ stream_client = None
    /\ last.cmd \in SubscriptionCommands
    /\ last.res = "no_session"
    /\ last.symbols # {}
    /\ last.who \in connected_clients
    /\ subVars = <<{}, {}>>
    /\ \A c \in Consumers : call[c] = NoCall
====
